---- MODULE Spec2Model ----
(***************************************************************************)
(* Model of the Ultimaker Digital Factory SDK TypeScript demo:             *)
(*   - DigitalFactoryDemo (digital-factory.ts): OAuth2 authorization-code  *)
(*     sign-in with PKCE through a local callback listener, token refresh, *)
(*     and the getClusters API call;                                       *)
(*   - the cluster monitor (monitor-printers.ts): compareResults, csvLine, *)
(*     getPreviousClusterStatus, awaitAsync and the monitorClusters loop.  *)
(* Every action is one synchronous run of the event loop: the code between *)
(* two awaits, or one event handler.                                       *)
(***************************************************************************)
EXTENDS Integers, Sequences, FiniteSets, TLC

VARIABLES
    \* ---- DigitalFactoryDemo fields (digital-factory.ts 287-303)
    _callbackServer,      \* "null" | "listening"
    _state,               \* Null | Some(string)
    _pkceVerifier,        \* Null | Some(string)
    _tokenPair,           \* Null | Some(TokenResponse)
    _tokenTimestampMs,    \* number
    signInPromise,        \* "none" | "pending" | "resolved" | "rejected"
    signInUrl,            \* Null | Some(query of the printed authorization URL)
    \* ---- what the demo object did (observed calls)
    signInCalls,          \* calls of signIn
    exchangeLog,          \* token-exchange requests sent by _handleRequest, in order
    inflight,             \* indices of exchangeLog still waiting for the answer
    tokenPairAssigned,    \* assignments of _tokenPair by _handleRequest
    resolveCalls,         \* calls of _signInCompleteResolve
    refreshReq,           \* Null | Some(refresh request waiting for its answer)
    apiReq,               \* Null | Some(GET /clusters request waiting for its answer)
    \* ---- environment
    now,                  \* Date.now()
    issued,               \* token pairs issued by the OAuth server so far
    \* ---- monitorClusters (monitor-printers.ts 95-144)
    pc,                   \* position of monitorClusters
    aborted,              \* abort.signal.aborted
    statusDir,            \* Null (missing) | Some(set of files) as found at startup
    previous,             \* Null | Some(cluster list)
    clusters,             \* Null | Some(cluster list): the list of the running iteration
    dateTime,             \* Null | Some(ms): new Date() of the running iteration
    snapshotFile,         \* Null | Some([name, content]): newest snapshot written by this run
    csvRow,               \* Null | Some(line): the line the running iteration wrote to the CSV stream
    stream,               \* "none" | "open" | "ended"
    exitCode,             \* Null | Some(code given to process.exit)
    sinceFetch,           \* "nofetch" | "fetched" | "slept": what happened since the last getClusters call
    iter,                 \* bookkeeping of the running iteration (see NoIter)
    \* ---- inputs and result of a stand-alone compareResults call
    cmpArgs,
    cmpResult,
    \* ---- the interactive demo (main.ts)
    config,               \* process.env: CLUSTER_ID and UFP_PATH (Null when unset)
    callLog,              \* the API operations main invoked, in order, with their outcome
    printed,              \* the catch of main printed the error
    received,             \* library_project_id and job_id that main bound from returned values
    jobUploadResponse,    \* Null | Some(data): uploadFileToProject's local while its file PUT is pending
    \* ---- callers of the demo object
    rejectedRequest,      \* Null | Some(request): the last callback request _handleRequest dropped
    ops,                  \* the API operations a client started concurrently (see ClientIdle)
    refreshLog            \* the refresh requests sent by those operations, in order

demoVars == <<_callbackServer, _state, _pkceVerifier, _tokenPair, _tokenTimestampMs,
              signInPromise, signInUrl, signInCalls, exchangeLog, inflight,
              tokenPairAssigned, resolveCalls, refreshReq, apiReq>>
envVars == <<now, issued>>
monitorVars == <<pc, aborted, statusDir, previous, clusters, dateTime, snapshotFile,
                 csvRow, stream, exitCode, sinceFetch, iter>>
cmpVars == <<cmpArgs, cmpResult>>
mainVars == <<config, callLog, printed, received, jobUploadResponse>>
clientVars == <<rejectedRequest, ops, refreshLog>>
vars == <<demoVars, envVars, monitorVars, cmpVars, mainVars, clientVars>>

-----------------------------------------------------------------------------
(* Bounds of the model *)
MaxLen == 2          \* longest cluster list given to a stand-alone compareResults
MonLen == 1          \* longest cluster list the API answers with in the monitor
MaxTicks == 2        \* clock ticks
MaxTokens == 2       \* token pairs the OAuth server issues
MaxExchanges == 2    \* token-exchange requests sent by the callback listener

MaxOps == 2          \* API operations a caller starts concurrently

(* Program constants *)
WaitMS == 60000
RefreshMarginS == 30
MsPerSecond == 1000

TickMs == WaitMS \div 2

Null == <<>>
Some(x) == <<x>>

SeqsUpTo(S, n) == UNION {[1..k -> S] : k \in 0..n}

ClusterIds == {"a", "b"}
ClusterResponse == [cluster_id : ClusterIds, is_online : BOOLEAN]
CompareLists == SeqsUpTo(ClusterResponse, MaxLen)
ApiLists == SeqsUpTo(ClusterResponse, MonLen)
DateTimes == {0, WaitMS + 5}

-----------------------------------------------------------------------------
(* monitor-printers.ts: pure functions *)

Pad2(n) == IF n < 10 THEN "0" \o ToString(n) ELSE ToString(n)
Pad3(n) == IF n < 10 THEN "00" \o ToString(n)
           ELSE IF n < 100 THEN "0" \o ToString(n) ELSE ToString(n)

\* Date.prototype.toISOString for a time of the model's first hour, with the
\* separator of the time fields as a parameter (":" in the ISO string).
ISOWith(ms, sep) ==
    "1970-01-01T00" \o sep \o Pad2((ms \div 60000) % 60) \o sep
        \o Pad2((ms \div 1000) % 60) \o "." \o Pad3(ms % 1000) \o "Z"

toISOString(ms) == ISOWith(ms, ":")

\* `${statusDir}/${dateTime.toISOString().replace(/:/g, '-')}-clusters.json`
logFileName(ms) == ISOWith(ms, "-") \o "-clusters.json"

has(set, id) == \E i \in DOMAIN set : set[i] = id

NewSet_keepAll(s) == s

\* new Set<string>(array): the distinct elements in the order of first occurrence
RECURSIVE NewSet(_)
NewSet(s) ==
    IF s = <<>> THEN <<>>
    ELSE LET init == NewSet(SubSeq(s, 1, Len(s) - 1))
             last == s[Len(s)]
         IN  IF has(init, last) THEN init ELSE Append(init, last)

getOnlineClusterIds(cl) ==
    LET online == SelectSeq(cl, LAMBDA c : c.is_online)
    IN  NewSet([i \in DOMAIN online |-> online[i].cluster_id])

compareResults_swapped(prev, current, date) ==
    LET previousOnlineIds == getOnlineClusterIds(prev)
        currentOnlineIds == getOnlineClusterIds(current)
    IN  [dateTime |-> toISOString(date),
         appeared |-> SelectSeq(previousOnlineIds, LAMBDA id : ~has(currentOnlineIds, id)),
         gone |-> SelectSeq(currentOnlineIds, LAMBDA id : ~has(previousOnlineIds, id)),
         onlineCount |-> Len(currentOnlineIds),
         offlineCount |-> Len(current) - Len(currentOnlineIds)]

compareResults(prev, current, date) ==
    LET previousOnlineIds == getOnlineClusterIds(prev)
        currentOnlineIds == getOnlineClusterIds(current)
    IN  [dateTime |-> toISOString(date),
         appeared |-> SelectSeq(currentOnlineIds, LAMBDA id : ~has(previousOnlineIds, id)),
         gone |-> SelectSeq(previousOnlineIds, LAMBDA id : ~has(currentOnlineIds, id)),
         onlineCount |-> Len(currentOnlineIds),
         offlineCount |-> Len(current) - Len(currentOnlineIds)]

\* Array.prototype.toString of a string array: the elements joined by ","
RECURSIVE JoinIds(_)
JoinIds(s) ==
    IF s = <<>> THEN ""
    ELSE IF Len(s) = 1 THEN s[1]
    ELSE s[1] \o "," \o JoinIds(Tail(s))

csvLine(comparison) ==
    comparison.dateTime \o ";" \o JoinIds(comparison.appeared) \o ";"
        \o JoinIds(comparison.gone) \o ";" \o ToString(comparison.onlineCount)
        \o ";" \o ToString(comparison.offlineCount)

-----------------------------------------------------------------------------
(* The status directory as found at startup: files with a name and, for a  *)
(* snapshot, the cluster list it holds.  FileOrder lists the names in      *)
(* ascending localeCompare order.                                          *)

FileOrder == << "1969-12-31T23-58-00.000Z-clusters.json",
                "1969-12-31T23-59-00.000Z-clusters.json",
                "readme.txt" >>
JsonNames == {FileOrder[1], FileOrder[2]}
endsWithJson(name) == name \in JsonNames
Rank(name) == CHOOSE i \in DOMAIN FileOrder : FileOrder[i] = name

Online(id) == [cluster_id |-> id, is_online |-> TRUE]
Offline(id) == [cluster_id |-> id, is_online |-> FALSE]

\* the status directories a run of the monitor starts with
StartDirs ==
    {Null,
     Some({}),
     Some({[name |-> FileOrder[3], content |-> <<>>]}),
     Some({[name |-> FileOrder[2], content |-> <<>>]}),
     Some({[name |-> FileOrder[2], content |-> <<Online("a")>>]}),
     Some({[name |-> FileOrder[1], content |-> <<Online("b")>>],
           [name |-> FileOrder[2], content |-> <<Offline("a")>>],
           [name |-> FileOrder[3], content |-> <<>>]})}

\* existingFiles.filter((file) => file.endsWith('.json'))
JsonFiles(dir) == {f \in dir[1] : endsWithJson(f.name)}

getPreviousClusterStatus_oldest(dir) ==
    IF dir = Null THEN Null
    ELSE LET json == {f \in dir[1] : endsWithJson(f.name)}
         IN  IF json = {} THEN Null
             ELSE LET firstFile == CHOOSE f \in json :
                                       \A g \in json : Rank(f.name) <= Rank(g.name)
                  IN  Some(firstFile.content)

\* getPreviousClusterStatus: the value it returns
getPreviousClusterStatus(dir) ==
    IF dir = Null THEN Null
    ELSE LET json == {f \in dir[1] : endsWithJson(f.name)}
         IN  IF json = {} THEN Null
             ELSE LET lastFile == CHOOSE f \in json :
                                      \A g \in json : Rank(g.name) <= Rank(f.name)
                  IN  Some(lastFile.content)

\* getPreviousClusterStatus: the directory it leaves (mkdir when missing)
ensureStatusDir(dir) == IF dir = Null THEN Some({}) ELSE dir

\* the variables of the callers in a run of main or of the monitor
ClientUnused ==
    /\ rejectedRequest = Null
    /\ ops = <<>>
    /\ refreshLog = <<>>

-----------------------------------------------------------------------------
(* The demo object and the monitor before anything ran *)

\* snapshot: writeFile of this iteration succeeded; threw: what threw ("no",
\* "fetch", "write"); logged: the catch printed the error; previousBefore:
\* 'previous' when the iteration began; earlier: LatestSnapshot at that time
NoIter == [snapshot |-> FALSE, threw |-> "no", logged |-> FALSE,
           previousBefore |-> Null, earlier |-> Null]

DemoInit ==
    /\ _callbackServer = "null"
    /\ _state = Null
    /\ _pkceVerifier = Null
    /\ _tokenPair = Null
    /\ _tokenTimestampMs = 0
    /\ signInPromise = "none"
    /\ signInUrl = Null
    /\ signInCalls = 0
    /\ exchangeLog = <<>>
    /\ inflight = {}
    /\ tokenPairAssigned = 0
    /\ resolveCalls = 0
    /\ refreshReq = Null
    /\ apiReq = Null

MonitorIdle ==
    /\ pc = "init"
    /\ aborted = FALSE
    /\ previous = Null
    /\ clusters = Null
    /\ dateTime = Null
    /\ snapshotFile = Null
    /\ csvRow = Null
    /\ stream = "none"
    /\ exitCode = Null
    /\ sinceFetch = "nofetch"
    /\ iter = NoIter

-----------------------------------------------------------------------------
(* digital-factory.ts: sign-in *)

StateValues == {"s1", "s2"}        \* values _generateState can return
VerifierValues == {"v1", "v2"}     \* values _generatePKCEVerifier can return
\* the (state, verifier) pairs a signIn call draws in the model
Generated == {[state |-> "s1", verifier |-> "v1"], [state |-> "s2", verifier |-> "v2"]}
CodeValues == {"c1"}               \* authorization codes a callback can carry
ExpiresInValues == {60}            \* expires_in of the token pairs the server issues

CLIENT_ID == "client-id"
SCOPES == "scopes"
RedirectUri == "http://localhost:32118/callback"

\* base64(sha512(verifier)): a string that determines the verifier and is not it
_generatePKCEChallenge_plain(verifier) == verifier

_generatePKCEChallenge(verifier) == "sha512(" \o verifier \o ")"

\* the query of the authorization URL that signIn prints
AuthQuery(state, verifier) ==
    [client_id |-> CLIENT_ID,
     redirect_uri |-> RedirectUri,
     scope |-> SCOPES,
     state |-> state,
     response_type |-> "code",
     code_challenge |-> _generatePKCEChallenge(verifier),
     code_challenge_method |-> "S512"]

\* signIn(): called once by monitorClusters (see Start)
signIn ==
    \E g \in Generated :
        /\ _callbackServer' = "listening"
        /\ _state' = Some(g.state)
        /\ _pkceVerifier' = Some(g.verifier)
        /\ signInUrl' = Some(AuthQuery(g.state, g.verifier))
        /\ signInPromise' = "pending"
        /\ signInCalls' = signInCalls + 1

\* A callback request: req.url may be missing; 'code' and 'state' are what
\* url.searchParams.get returns (Null when the parameter is absent).
Requests ==
    [url : BOOLEAN,
     code : {Null, Some("")} \cup {Some(c) : c \in CodeValues},
     state : {Null, Some("")} \cup {Some(s) : s \in StateValues}]

\* JavaScript truthiness of a string or null
truthy(o) == o # Null /\ o # Some("")

stateMatches_anyState(state, expected) == truthy(state)

\* the negation of (!state || state !== this._state)
stateMatches(state, expected) == truthy(state) /\ state = expected

\* the four early returns of _handleRequest
requestPasses(req) ==
    /\ req.url
    /\ truthy(_pkceVerifier)
    /\ truthy(req.code)
    /\ stateMatches(req.state, _state)

\* the body _requestAccessToken posts to the token endpoint; 'callbackState'
\* and 'afterSignIn' record the request that caused it and whether signIn's
\* promise was already resolved
ExchangeRequest(req) ==
    [client_id |-> CLIENT_ID,
     redirect_uri |-> RedirectUri,
     grant_type |-> "authorization_code",
     scope |-> SCOPES,
     code |-> req.code[1],
     code_verifier |-> _pkceVerifier[1],
     callbackState |-> req.state,
     afterSignIn |-> signInPromise = "resolved"]

processVars == <<pc, aborted, statusDir, previous, clusters, dateTime, snapshotFile,
                 csvRow, stream, sinceFetch, iter>>
signInFields == <<_callbackServer, _state, _pkceVerifier, signInPromise, signInUrl,
                  signInCalls>>

\* _handleRequest, a request that one of the early returns drops
HandleRequestDropped ==
    /\ exitCode = Null
    /\ signInCalls > 0
    /\ {req \in Requests : ~requestPasses(req)} # {}
    /\ UNCHANGED vars

\* _handleRequest up to its await: the token-exchange request is sent
HandleRequestExchange(limit) ==
    /\ exitCode = Null
    /\ signInCalls > 0
    /\ Len(exchangeLog) < limit
    /\ \E req \in Requests :
        /\ requestPasses(req)
        /\ exchangeLog' = Append(exchangeLog, ExchangeRequest(req))
    /\ inflight' = inflight \cup {Len(exchangeLog) + 1}
    /\ UNCHANGED <<signInFields, _tokenPair, _tokenTimestampMs, tokenPairAssigned,
                   resolveCalls, refreshReq, apiReq, envVars, processVars, exitCode,
                   cmpVars, mainVars, clientVars>>

\* What the token endpoint can answer: a token pair, or an error object that
\* has none of the TokenResponse fields.
ErrorResponse == [access_token |-> Null, refresh_token |-> Null, expires_in |-> Null]
NewTokenPair(e) ==
    [access_token |-> Some(issued + 1), refresh_token |-> Some(issued + 1),
     expires_in |-> Some(e)]
TokenAnswers ==
    {[pair |-> ErrorResponse, issues |-> 0]}
    \cup {[pair |-> NewTokenPair(e), issues |-> 1] : e \in {x \in ExpiresInValues : issued < MaxTokens}}

\* the part of _handleRequest after the await that resets the sign-in state
resetVerifier == Null

HandleRequestComplete_resolveFirst ==
    /\ exitCode = Null
    /\ \E i \in inflight : inflight' = inflight \ {i}
    /\ _callbackServer' = "null"
    /\ _state' = Null
    /\ _pkceVerifier' = resetVerifier
    /\ resolveCalls' = resolveCalls + 1
    /\ signInPromise' = IF signInPromise = "pending" THEN "resolved" ELSE signInPromise
    /\ UNCHANGED <<_tokenPair, _tokenTimestampMs, tokenPairAssigned, issued, signInUrl,
                   signInCalls, exchangeLog, refreshReq, apiReq, now, processVars,
                   exitCode, cmpVars, mainVars, clientVars>>

\* _handleRequest after its await: the token endpoint answered
HandleRequestComplete ==
    /\ exitCode = Null
    /\ \E i \in inflight, a \in TokenAnswers :
        /\ inflight' = inflight \ {i}
        /\ _tokenPair' = Some(a.pair)
        /\ issued' = issued + a.issues
    /\ _tokenTimestampMs' = now
    /\ tokenPairAssigned' = tokenPairAssigned + 1
    /\ _callbackServer' = "null"
    /\ _state' = Null
    /\ _pkceVerifier' = resetVerifier
    /\ resolveCalls' = resolveCalls + 1
    /\ signInPromise' = IF signInPromise = "pending" THEN "resolved" ELSE signInPromise
    /\ UNCHANGED <<signInUrl, signInCalls, exchangeLog, refreshReq, apiReq, now,
                   processVars, exitCode, cmpVars, mainVars, clientVars>>

\* _handleRequest when fetch or json() throws: the handler's promise rejects
\* with nobody awaiting it.  Node either only warns (crash = FALSE) or ends
\* the process with code 1 (crash = TRUE), depending on its version and flags.
HandleRequestThrows ==
    /\ exitCode = Null
    /\ \E i \in inflight : inflight' = inflight \ {i}
    /\ \E crash \in BOOLEAN :
        IF crash THEN exitCode' = Some(1) ELSE exitCode' = exitCode
    /\ UNCHANGED <<signInFields, _tokenPair, _tokenTimestampMs, exchangeLog,
                   tokenPairAssigned, resolveCalls, refreshReq, apiReq, envVars,
                   processVars, cmpVars, mainVars, clientVars>>

-----------------------------------------------------------------------------
(* digital-factory.ts: token refresh and getClusters *)

_tokenNeedsRefresh_atExpiry ==
    /\ _tokenPair[1].expires_in # Null
    /\ now > _tokenTimestampMs + MsPerSecond * _tokenPair[1].expires_in[1]

\* _tokenNeedsRefresh for a token pair; arithmetic on a missing expires_in
\* gives NaN, and every comparison with NaN is false
_tokenNeedsRefresh ==
    /\ _tokenPair[1].expires_in # Null
    /\ now > _tokenTimestampMs
             + MsPerSecond * (_tokenPair[1].expires_in[1] - RefreshMarginS)

\* the body _requestTokenRefresh posts to the token endpoint
RefreshRequest ==
    [client_id |-> CLIENT_ID,
     grant_type |-> "refresh_token",
     refresh_token |-> _tokenPair[1].refresh_token,
     scope |-> SCOPES]

\* httpGetDigitalFactory(`${API_ROOT_URL}/connect/v1/clusters`) with the
\* headers of _getRequestHeaders
ClustersRequest(pair) ==
    [url |-> "https://api.ultimaker.com/connect/v1/clusters",
     authorization |-> pair.access_token]

\* answers of the token endpoint to a refresh request: a new pair only for a
\* request that presents a refresh token
RefreshAnswers ==
    {a \in TokenAnswers : a.issues = 1 => refreshReq[1].refresh_token # Null}

-----------------------------------------------------------------------------
(* monitor-printers.ts: monitorClusters *)

loopVars == <<aborted, statusDir, stream, exitCode>>
tokenFields == <<_tokenPair, _tokenTimestampMs>>
callbackVars == <<signInFields, exchangeLog, inflight, tokenPairAssigned, resolveCalls>>

\* monitorClusters() up to `await demo.signIn()`: the SIGINT handler is
\* registered, the demo object made and signIn called
Start ==
    /\ pc = "init"
    /\ exitCode = Null
    /\ signIn
    /\ pc' = "signIn"
    /\ UNCHANGED <<tokenFields, exchangeLog, inflight, tokenPairAssigned, resolveCalls,
                   refreshReq, apiReq, envVars, aborted, statusDir, previous, clusters,
                   dateTime, snapshotFile, csvRow, stream, exitCode, sinceFetch, iter,
                   cmpVars, mainVars, clientVars>>

signInAwaited_notAwaited == TRUE

\* `await demo.signIn()` lets monitorClusters continue
signInAwaited == signInPromise = "resolved"

\* signIn resolved: monitorClusters calls getPreviousClusterStatus, which
\* runs up to its first await: existsSync, then mkdir or readdir is called
SignInCompleted ==
    /\ pc = "signIn"
    /\ exitCode = Null
    /\ signInAwaited
    /\ pc' = IF statusDir = Null THEN "mkdir" ELSE "readdir"
    /\ UNCHANGED <<demoVars, envVars, loopVars, previous, clusters, dateTime,
                   snapshotFile, csvRow, sinceFetch, iter, cmpVars, mainVars, clientVars>>

SignInRejected_exit0 ==
    /\ pc = "signIn"
    /\ exitCode = Null
    /\ signInPromise = "rejected"
    /\ pc' = "exited"
    /\ exitCode' = Some(0)
    /\ UNCHANGED <<demoVars, envVars, aborted, statusDir, stream, previous, clusters,
                   dateTime, snapshotFile, csvRow, sinceFetch, iter, cmpVars, mainVars,
                   clientVars>>

\* signIn rejected (SIGINT while it was pending): monitorClusters rejects and
\* the catch of line 141 exits with code 1
SignInRejected ==
    /\ pc = "signIn"
    /\ exitCode = Null
    /\ signInPromise = "rejected"
    /\ pc' = "exited"
    /\ exitCode' = Some(1)
    /\ UNCHANGED <<demoVars, envVars, aborted, statusDir, stream, previous, clusters,
                   dateTime, snapshotFile, csvRow, sinceFetch, iter, cmpVars, mainVars, clientVars>>

loadFrame == <<demoVars, envVars, aborted, exitCode, clusters, dateTime, snapshotFile,
               csvRow, sinceFetch, iter, cmpVars, mainVars, clientVars>>

\* `await mkdir` resolved: the directory exists, getPreviousClusterStatus
\* returns null and the CSV stream is created
MkdirDone ==
    /\ pc = "mkdir"
    /\ exitCode = Null
    /\ statusDir' = ensureStatusDir(statusDir)
    /\ previous' = Null
    /\ stream' = "open"
    /\ pc' = "loop"
    /\ UNCHANGED loadFrame

\* `await readdir` resolved: without a '.json' file lastFile is undefined,
\* getPreviousClusterStatus returns it and the CSV stream is created;
\* otherwise readFile is called for the last file
ReaddirDone ==
    /\ pc = "readdir"
    /\ exitCode = Null
    /\ IF JsonFiles(statusDir) = {}
       THEN /\ previous' = Null
            /\ stream' = "open"
            /\ pc' = "loop"
       ELSE /\ pc' = "readFile"
            /\ UNCHANGED <<previous, stream>>
    /\ UNCHANGED <<statusDir, loadFrame>>

\* `await readFile` resolved: getPreviousClusterStatus returns the parsed
\* content of the last file (nothing writes to the directory between the
\* readdir and here) and the CSV stream is created
ReadFileDone ==
    /\ pc = "readFile"
    /\ exitCode = Null
    /\ previous' = getPreviousClusterStatus(statusDir)
    /\ stream' = "open"
    /\ pc' = "loop"
    /\ UNCHANGED <<statusDir, loadFrame>>

\* the newest cluster list written by this run or, before the first one, the
\* snapshot found at startup
LatestSnapshot ==
    IF snapshotFile # Null THEN Some(snapshotFile[1].content)
    ELSE getPreviousClusterStatus(statusDir)

loopContinues_always == TRUE

\* the condition of the while loop
loopContinues == ~aborted

\* One pass from the loop condition into getClusters, up to the first request:
\* _checkTokenExpiration sends the refresh request when the token needs one,
\* otherwise the GET request goes out.
Retrieve ==
    /\ pc = "loop"
    /\ exitCode = Null
    /\ loopContinues
    /\ clusters' = Null
    /\ dateTime' = Null
    /\ csvRow' = Null
    /\ IF _tokenPair = Null
       THEN \* reading this._tokenPair.expires_in throws a TypeError
            /\ sinceFetch' = "slept"
            /\ iter' = [NoIter EXCEPT !.previousBefore = previous,
                                      !.earlier = LatestSnapshot,
                                      !.threw = "fetch", !.logged = TRUE]
            /\ pc' = "sleeping"
            /\ UNCHANGED <<refreshReq, apiReq>>
       ELSE /\ sinceFetch' = "fetched"
            /\ iter' = [NoIter EXCEPT !.previousBefore = previous,
                                      !.earlier = LatestSnapshot]
            /\ IF _tokenNeedsRefresh
               THEN /\ refreshReq' = Some(RefreshRequest)
                    /\ pc' = "refreshing"
                    /\ UNCHANGED apiReq
               ELSE /\ apiReq' = Some(ClustersRequest(_tokenPair[1]))
                    /\ pc' = "fetching"
                    /\ UNCHANGED refreshReq
    /\ UNCHANGED <<callbackVars, tokenFields, envVars, loopVars, previous,
                   snapshotFile, cmpVars, mainVars, clientVars>>

\* the loop condition fails: finally ends the stream, monitorClusters
\* resolves and the then of line 140 exits with code 0
LoopExit ==
    /\ pc = "loop"
    /\ exitCode = Null
    /\ ~loopContinues
    /\ stream' = "ended"
    /\ pc' = "exited"
    /\ exitCode' = Some(0)
    /\ UNCHANGED <<demoVars, envVars, aborted, statusDir, previous, clusters, dateTime,
                   snapshotFile, csvRow, sinceFetch, iter, cmpVars, mainVars, clientVars>>

\* the catch of lines 129-131 followed by the awaitAsync call of line 132
CatchAndSleep_rethrow(kind) ==
    /\ iter' = [iter EXCEPT !.threw = kind]
    /\ pc' = "exited"
    /\ exitCode' = Some(1)
    /\ UNCHANGED <<sinceFetch, stream>>

CatchAndSleep(kind) ==
    /\ iter' = [iter EXCEPT !.threw = kind, !.logged = TRUE]
    /\ sinceFetch' = "slept"
    /\ pc' = "sleeping"
    /\ UNCHANGED <<exitCode, stream>>

\* _checkTokenExpiration: the token endpoint answered the refresh request;
\* getClusters goes on and sends the GET request
RefreshAnswered ==
    /\ pc = "refreshing"
    /\ exitCode = Null
    /\ \E a \in RefreshAnswers :
        /\ _tokenPair' = Some(a.pair)
        /\ issued' = issued + a.issues
        /\ apiReq' = Some(ClustersRequest(a.pair))
    /\ _tokenTimestampMs' = now
    /\ refreshReq' = Null
    /\ pc' = "fetching"
    /\ UNCHANGED <<callbackVars, now, loopVars, previous, clusters, dateTime,
                   snapshotFile, csvRow, sinceFetch, iter, cmpVars, mainVars, clientVars>>

\* the refresh request throws: getClusters throws
RefreshThrows ==
    /\ pc = "refreshing"
    /\ exitCode = Null
    /\ refreshReq' = Null
    /\ CatchAndSleep("fetch")
    /\ UNCHANGED <<callbackVars, tokenFields, apiReq, envVars, aborted, statusDir,
                   previous, clusters, dateTime, snapshotFile, csvRow, cmpVars, mainVars, clientVars>>

\* getClusters returned a cluster list (response.data is an array, which is
\* truthy also when empty): the snapshot is handed to writeFile
FetchList(lists) ==
    /\ pc = "fetching"
    /\ exitCode = Null
    /\ \E l \in lists : clusters' = Some(l)
    /\ dateTime' = Some(now)
    /\ apiReq' = Null
    /\ pc' = "writing"
    /\ UNCHANGED <<callbackVars, tokenFields, refreshReq, envVars, loopVars, previous,
                   snapshotFile, csvRow, sinceFetch, iter, cmpVars, mainVars, clientVars>>

\* getClusters returned no data (response.data undefined or null): continue
FetchAbsent ==
    /\ pc = "fetching"
    /\ exitCode = Null
    /\ apiReq' = Null
    /\ pc' = "loop"
    /\ UNCHANGED <<callbackVars, tokenFields, refreshReq, envVars, loopVars, previous,
                   clusters, dateTime, snapshotFile, csvRow, sinceFetch, iter, cmpVars, mainVars, clientVars>>

\* getClusters threw (the request or response.json() failed)
FetchThrows ==
    /\ pc = "fetching"
    /\ exitCode = Null
    /\ apiReq' = Null
    /\ CatchAndSleep("fetch")
    /\ UNCHANGED <<callbackVars, tokenFields, refreshReq, envVars, aborted, statusDir,
                   previous, clusters, dateTime, snapshotFile, csvRow, cmpVars, mainVars, clientVars>>

nextPrevious_kept == previous

\* `previous = clusters` of line 128
nextPrevious == clusters

AppendRow_noRow(wrote) ==
    /\ csvRow' = Null
    /\ iter' = [iter EXCEPT !.snapshot = wrote]
    /\ previous' = nextPrevious
    /\ sinceFetch' = "slept"
    /\ pc' = "sleeping"

\* lines 122-128 and 132: the comparison with 'previous' when there is one,
\* the CSV line, the new 'previous', then awaitAsync is called
AppendRow(wrote) ==
    /\ csvRow' = IF previous # Null
                 THEN Some(csvLine(compareResults(previous[1], clusters[1], dateTime[1])))
                 ELSE Null
    /\ iter' = [iter EXCEPT !.snapshot = wrote]
    /\ previous' = nextPrevious
    /\ sinceFetch' = "slept"
    /\ pc' = "sleeping"

WriteThrows_swallowed ==
    /\ pc = "writing"
    /\ exitCode = Null
    /\ snapshotFile' = snapshotFile
    /\ AppendRow(FALSE)
    /\ UNCHANGED <<demoVars, envVars, loopVars, clusters, dateTime, cmpVars, mainVars, clientVars>>

\* writeFile resolved: the snapshot is on disk
WriteOk ==
    /\ pc = "writing"
    /\ exitCode = Null
    /\ snapshotFile' = Some([name |-> logFileName(dateTime[1]), content |-> clusters[1]])
    /\ AppendRow(TRUE)
    /\ UNCHANGED <<demoVars, envVars, loopVars, clusters, dateTime, cmpVars, mainVars, clientVars>>

\* writeFile rejected
WriteThrows ==
    /\ pc = "writing"
    /\ exitCode = Null
    /\ CatchAndSleep("write")
    /\ UNCHANGED <<demoVars, envVars, aborted, statusDir, previous, clusters, dateTime,
                   snapshotFile, csvRow, cmpVars, mainVars, clientVars>>

\* awaitAsync: the timer of waitMS fires and resolves the promise
SleepTimeout ==
    /\ pc = "sleeping"
    /\ exitCode = Null
    /\ pc' = "loop"
    /\ UNCHANGED <<demoVars, envVars, loopVars, previous, clusters, dateTime,
                   snapshotFile, csvRow, sinceFetch, iter, cmpVars, mainVars, clientVars>>

\* the positions of monitorClusters after it registered its SIGINT handler
MonitorPositions == {"signIn", "mkdir", "readdir", "readFile", "loop", "refreshing", "fetching",
                     "writing", "sleeping", "exited"}

\* SIGINT with both handlers registered: abort.abort() (line 101), which
\* dispatches 'abort' once and so resolves a waiting awaitAsync, and the
\* reject of signIn's promise (digital-factory.ts line 331)
Sigint ==
    /\ pc \in MonitorPositions
    /\ exitCode = Null
    /\ aborted' = TRUE
    /\ pc' = IF pc = "sleeping" /\ ~aborted THEN "loop" ELSE pc
    /\ signInPromise' = IF signInPromise = "pending" THEN "rejected" ELSE signInPromise
    /\ UNCHANGED <<_callbackServer, _state, _pkceVerifier, signInUrl, signInCalls,
                   tokenFields, exchangeLog, inflight, tokenPairAssigned, resolveCalls,
                   refreshReq, apiReq, envVars, statusDir, stream, exitCode, previous,
                   clusters, dateTime, snapshotFile, csvRow, sinceFetch, iter, cmpVars, mainVars, clientVars>>

\* time passes
Tick ==
    /\ exitCode = Null
    /\ now < MaxTicks * TickMs
    /\ now' = now + TickMs
    /\ UNCHANGED <<demoVars, issued, monitorVars, cmpVars, mainVars, clientVars>>

-----------------------------------------------------------------------------
(* main.ts: the interactive demo *)

\* the placeholders of config.env that main compares with
CLUSTER_PLACEHOLDER == "your-cluster-id"
UFP_PLACEHOLDER == "path/to/your/file.ufp"

\* process.env.CLUSTER_ID and process.env.UFP_PATH: unset, the placeholder,
\* or a configured value
Configs ==
    [clusterId : {Null, Some(CLUSTER_PLACEHOLDER), Some("cluster-1")},
     ufpPath : {Null, Some(UFP_PLACEHOLDER), Some("file.ufp")}]
NoConfig == [clusterId |-> Null, ufpPath |-> Null]

\* the ids the API answers with
ProjectIds == {"p1"}
JobIds == {"j1"}
\* main before an operation returned to it
NoneReceived == [library_project_id |-> Null, job_id |-> Null]

\* the variables of main in a run of another program
MainUnused ==
    /\ config = NoConfig
    /\ callLog = <<>>
    /\ printed = FALSE
    /\ received = NoneReceived
    /\ jobUploadResponse = Null

\* main before its first statement
MainIdle ==
    /\ pc = "main"
    /\ aborted = FALSE
    /\ previous = Null
    /\ clusters = Null
    /\ dateTime = Null
    /\ snapshotFile = Null
    /\ csvRow = Null
    /\ stream = "none"
    /\ exitCode = Null
    /\ sinceFetch = "nofetch"
    /\ iter = NoIter
    /\ callLog = <<>>
    /\ printed = FALSE
    /\ received = NoneReceived
    /\ jobUploadResponse = Null

\* the API operations of DigitalFactoryDemo that main calls, in the order of
\* main's text
MainSteps == << "createProject", "addCommentToProject", "uploadFileToProject",
               "submitPrintJob", "getRunningPrintJobs", "searchProjects" >>
StepNames == {MainSteps[i] : i \in DOMAIN MainSteps}

nextStep_swapped(op) ==
    CASE op = "createProject" -> Some("getRunningPrintJobs")
      [] op = "getRunningPrintJobs" -> Some("addCommentToProject")
      [] op = "addCommentToProject" -> Some("searchProjects")
      [] OTHER -> Null

\* the condition of main's if: both values differ from their placeholder
uploadConfigured(cfg) ==
    /\ cfg.clusterId # Some(CLUSTER_PLACEHOLDER)
    /\ cfg.ufpPath # Some(UFP_PLACEHOLDER)

\* the operation main calls after 'op' completed (Null: main returns)
nextStep(op) ==
    CASE op = "createProject" -> Some("addCommentToProject")
      [] op = "addCommentToProject" ->
             IF uploadConfigured(config) THEN Some("uploadFileToProject")
             ELSE Some("getRunningPrintJobs")
      [] op = "uploadFileToProject" -> Some("submitPrintJob")
      [] op = "submitPrintJob" -> Some("getRunningPrintJobs")
      [] op = "getRunningPrintJobs" -> Some("searchProjects")
      [] op = "searchProjects" -> Null

\* main reads a field of the value the operation returned (destructuring or
\* .length), which throws a TypeError when response.data is undefined
usesResult(op) == op # "addCommentToProject"

API_ROOT_URL == "https://api.ultimaker.com"

\* a value in a template literal: undefined is written "undefined"
Interpolated(o) == IF o = Null THEN "undefined" ELSE o[1]

\* the request an operation sends through httpPut/httpPost/httpGetDigitalFactory
\* (got: the ids main holds when it calls the operation); the query strings
\* are the URLSearchParams of getRunningPrintJobs and searchProjects
ApiRequest(op, pair, got) ==
    [url |-> CASE op = "createProject" -> "PUT " \o API_ROOT_URL \o "/cura/v1/projects"
               [] op = "addCommentToProject" ->
                      "PUT " \o API_ROOT_URL \o "/cura/v1/projects/"
                          \o Interpolated(got.library_project_id) \o "/comments"
               [] op = "uploadFileToProject" ->
                      "PUT " \o API_ROOT_URL \o "/cura/v1/jobs/upload"
               [] op = "submitPrintJob" ->
                      "POST " \o API_ROOT_URL \o "/connect/v1/clusters/"
                          \o Interpolated(config.clusterId) \o "/print/"
                          \o Interpolated(got.job_id)
               [] op = "getRunningPrintJobs" ->
                      "GET " \o API_ROOT_URL
                          \o "/connect/v1/print_jobs?limit=20&status=in_progress"
               [] op = "searchProjects" ->
                      "GET " \o API_ROOT_URL
                          \o "/cura/v1/projects?limit=24&page=1&search=demo&shared=false",
     authorization |-> pair.access_token]

mainLocals == <<aborted, statusDir, previous, clusters, dateTime, snapshotFile, csvRow,
                stream, sinceFetch, iter>>

\* main().catch: the error is printed and the process exits with code 1
MainCatch_continue(log) ==
    /\ callLog' = Append(log, [op |-> "searchProjects", status |-> "pending"])
    /\ printed' = TRUE
    /\ pc' = "searchProjects"
    /\ exitCode' = exitCode
    /\ apiReq' = Some(ApiRequest("searchProjects", ErrorResponse, received))
    /\ refreshReq' = Null

MainCatch(log) ==
    /\ callLog' = log
    /\ printed' = TRUE
    /\ pc' = "mainExited"
    /\ exitCode' = Some(1)
    /\ apiReq' = Null
    /\ refreshReq' = Null

\* main calls the operation 'op' (log: callLog up to this call; readable:
\* readFileSync can read the UFP file; got: the ids main holds).  The operation runs up to its first
\* request: uploadFileToProject first takes the basename of the path and reads
\* the file, then every operation runs _checkTokenExpiration, which sends the
\* refresh request when the token needs one; otherwise the API request goes out.
Invoke(op, log, readable, got) ==
    LET entry(st) == Append(log, [op |-> op, status |-> st])
    IN  IF \/ op = "uploadFileToProject" /\ (config.ufpPath = Null \/ ~readable)
           \/ _tokenPair = Null
        THEN MainCatch(entry("failed"))
        ELSE /\ callLog' = entry("pending")
             /\ pc' = op
             /\ UNCHANGED <<exitCode, printed>>
             /\ IF _tokenNeedsRefresh
                THEN /\ refreshReq' = Some(RefreshRequest)
                     /\ apiReq' = Null
                ELSE /\ apiReq' = Some(ApiRequest(op, _tokenPair[1], got))
                     /\ refreshReq' = Null

\* callLog with the outcome of the running operation
Settled(st) == [callLog EXCEPT ![Len(callLog)].status = st]

\* main() up to `await demo.signIn()`
MainStart ==
    /\ pc = "main"
    /\ exitCode = Null
    /\ signIn
    /\ pc' = "mainSignIn"
    /\ UNCHANGED <<tokenFields, exchangeLog, inflight, tokenPairAssigned, resolveCalls,
                   refreshReq, apiReq, envVars, mainLocals, exitCode, cmpVars, mainVars, clientVars>>

\* signIn resolved: main calls createProject
MainSignInCompleted ==
    /\ pc = "mainSignIn"
    /\ exitCode = Null
    /\ signInAwaited
    /\ Invoke("createProject", callLog, TRUE, received)
    /\ UNCHANGED <<callbackVars, tokenFields, envVars, mainLocals, cmpVars, config,
                   received, jobUploadResponse, clientVars>>

\* signIn rejected: main rejects
MainSignInRejected ==
    /\ pc = "mainSignIn"
    /\ exitCode = Null
    /\ signInPromise = "rejected"
    /\ MainCatch(callLog)
    /\ UNCHANGED <<callbackVars, tokenFields, envVars, mainLocals, cmpVars, config,
                   received, jobUploadResponse, clientVars>>

\* SIGINT in the demo: the only handler is the reject of signIn's promise
\* (digital-factory.ts line 331), which does nothing once the promise settled
MainSigint ==
    /\ pc \in {"mainSignIn"} \cup StepNames \cup {"uploadPut"}
    /\ exitCode = Null
    /\ signInPromise' = IF signInPromise = "pending" THEN "rejected" ELSE signInPromise
    /\ UNCHANGED <<_callbackServer, _state, _pkceVerifier, signInUrl, signInCalls,
                   tokenFields, exchangeLog, inflight, tokenPairAssigned, resolveCalls,
                   refreshReq, apiReq, envVars, monitorVars, cmpVars, mainVars, clientVars>>

\* _checkTokenExpiration in an operation of main: the refresh was answered and
\* the operation sends its API request
MainRefreshAnswered ==
    /\ pc \in StepNames
    /\ exitCode = Null
    /\ refreshReq # Null
    /\ \E a \in RefreshAnswers :
        /\ _tokenPair' = Some(a.pair)
        /\ issued' = issued + a.issues
        /\ apiReq' = Some(ApiRequest(pc, a.pair, received))
    /\ _tokenTimestampMs' = now
    /\ refreshReq' = Null
    /\ UNCHANGED <<callbackVars, now, monitorVars, cmpVars, mainVars, clientVars>>

\* the refresh request throws: the operation rejects, and so does main
MainRefreshThrows ==
    /\ pc \in StepNames
    /\ exitCode = Null
    /\ refreshReq # Null
    /\ MainCatch(Settled("failed"))
    /\ UNCHANGED <<callbackVars, tokenFields, envVars, mainLocals, cmpVars, config,
                   received, jobUploadResponse, clientVars>>

\* what main holds after the operation 'op' returned response.data to it:
\* it binds library_project_id from the value createProject returned
Receive(op, data, p) ==
    IF data /\ op = "createProject"
    THEN [received EXCEPT !.library_project_id = Some(p)]
    ELSE received

\* what main holds after uploadFileToProject returned jobUploadResponse.data:
\* it binds job_id
ReceiveJob == [received EXCEPT !.job_id = Some(jobUploadResponse[1].job_id)]

\* the API request of the running operation was answered (data: the answer
\* has a 'data' field).  uploadFileToProject keeps the answer and goes on to
\* PUT the file to the upload URL, main still waiting; every other operation
\* returns response.data to main, which uses it and calls the next operation
\* or returns.
MainStepReturns ==
    /\ pc \in StepNames
    /\ exitCode = Null
    /\ apiReq # Null
    /\ \E data \in BOOLEAN, readable \in BOOLEAN, p \in ProjectIds, j \in JobIds :
        /\ received' = Receive(pc, data, p)
        /\ jobUploadResponse' = IF data /\ pc = "uploadFileToProject"
                                THEN Some([job_id |-> j])
                                ELSE jobUploadResponse
        /\ IF pc = "uploadFileToProject"
           THEN IF data
                THEN /\ pc' = "uploadPut"
                     /\ apiReq' = Null
                     /\ UNCHANGED <<refreshReq, exitCode, callLog, printed>>
                ELSE MainCatch(Settled("failed"))
           ELSE IF ~data /\ usesResult(pc)
                THEN MainCatch(Settled("done"))
                ELSE IF nextStep(pc) = Null
                     THEN /\ callLog' = Settled("done")
                          /\ pc' = "mainExited"
                          /\ exitCode' = Some(0)
                          /\ apiReq' = Null
                          /\ UNCHANGED <<refreshReq, printed>>
                     ELSE Invoke(nextStep(pc)[1], Settled("done"), readable,
                                 Receive(pc, data, p))
    /\ UNCHANGED <<callbackVars, tokenFields, envVars, mainLocals, cmpVars, config,
                   clientVars>>

\* the API request of the running operation throws (fetch or json())
MainStepThrows ==
    /\ pc \in StepNames
    /\ exitCode = Null
    /\ apiReq # Null
    /\ MainCatch(Settled("failed"))
    /\ UNCHANGED <<callbackVars, tokenFields, envVars, mainLocals, cmpVars, config,
                   received, jobUploadResponse, clientVars>>

\* the PUT of the file to the upload URL resolved: uploadFileToProject
\* returns jobUploadResponse.data, main binds job_id and calls submitPrintJob
MainUploadDone ==
    /\ pc = "uploadPut"
    /\ exitCode = Null
    /\ received' = ReceiveJob
    /\ jobUploadResponse' = Null
    /\ Invoke(nextStep("uploadFileToProject")[1], Settled("done"), TRUE, ReceiveJob)
    /\ UNCHANGED <<callbackVars, tokenFields, envVars, mainLocals, cmpVars, config,
                   clientVars>>

\* the PUT of the file rejects: uploadFileToProject and main reject, and main
\* has bound no job_id
MainUploadThrows ==
    /\ pc = "uploadPut"
    /\ exitCode = Null
    /\ jobUploadResponse' = Null
    /\ MainCatch(Settled("failed"))
    /\ UNCHANGED <<callbackVars, tokenFields, envVars, mainLocals, cmpVars, config,
                   received, clientVars>>

MainNext ==
    \/ MainStart
    \/ MainSignInCompleted
    \/ MainSignInRejected
    \/ MainRefreshAnswered
    \/ MainRefreshThrows
    \/ MainStepReturns
    \/ MainStepThrows
    \/ MainUploadDone
    \/ MainUploadThrows

-----------------------------------------------------------------------------
(* Spec: the monitor run with its data.  The status directory is drawn by  *)
(* the initial state, the API answers with every list of ApiLists, and the *)
(* run is shorter than the token's life (the clock stands still, so no     *)
(* refresh is due).                                                        *)

Init ==
    /\ DemoInit
    /\ MonitorIdle
    /\ statusDir \in StartDirs
    /\ now = 0
    /\ issued = 0
    /\ cmpArgs = Null
    /\ cmpResult = Null
    /\ MainUnused
    /\ ClientUnused

MonitorNext ==
    \/ Start
    \/ SignInCompleted
    \/ SignInRejected
    \/ MkdirDone
    \/ ReaddirDone
    \/ ReadFileDone
    \/ Retrieve
    \/ LoopExit
    \/ FetchList(ApiLists)
    \/ FetchAbsent
    \/ FetchThrows
    \/ WriteOk
    \/ WriteThrows
    \/ SleepTimeout

Next ==
    \/ MonitorNext
    \/ HandleRequestDropped
    \/ HandleRequestExchange(MaxExchanges)
    \/ HandleRequestComplete
    \/ HandleRequestThrows
    \/ Sigint

Spec == Init /\ [][Next]_vars

\* Pending calls return or throw and timers fire: every step of
\* monitorClusters that can be taken is taken.
FairSpec == Spec /\ WF_vars(MonitorNext)

-----------------------------------------------------------------------------
(* SpecAuth: the monitor run with its authentication.  Callbacks overlap   *)
(* up to MaxExchanges token exchanges, time passes and tokens are          *)
(* refreshed; the status directory is missing at startup, so that          *)
(* getPreviousClusterStatus takes its mkdir branch, and the API answers    *)
(* with the lists of AuthLists.                                            *)

AuthLists == {<<>>, <<Online("a")>>}

InitAuth ==
    /\ DemoInit
    /\ MonitorIdle
    /\ statusDir = Null
    /\ now = 0
    /\ issued = 0
    /\ cmpArgs = Null
    /\ cmpResult = Null
    /\ MainUnused
    /\ ClientUnused

NextAuth ==
    \/ Start
    \/ SignInCompleted
    \/ SignInRejected
    \/ MkdirDone
    \/ Retrieve
    \/ LoopExit
    \/ RefreshAnswered
    \/ RefreshThrows
    \/ FetchList(AuthLists)
    \/ FetchAbsent
    \/ FetchThrows
    \/ WriteOk
    \/ WriteThrows
    \/ SleepTimeout
    \/ HandleRequestDropped
    \/ HandleRequestExchange(MaxExchanges)
    \/ HandleRequestComplete
    \/ HandleRequestThrows
    \/ Sigint
    \/ Tick

SpecAuth == InitAuth /\ [][NextAuth]_vars

-----------------------------------------------------------------------------
(* SpecDemo: both entry points with their authentication.  The initial     *)
(* state draws the program (the monitor, or main with a configuration of   *)
(* Configs); the clock advances and tokens are refreshed.                  *)

InitDemo ==
    /\ DemoInit
    /\ \/ MonitorIdle /\ MainUnused
       \/ MainIdle /\ config \in Configs
    /\ ClientUnused
    /\ statusDir = Null
    /\ now = 0
    /\ issued = 0
    /\ cmpArgs = Null
    /\ cmpResult = Null

NextDemo ==
    \/ NextAuth
    \/ MainNext
    \/ MainSigint

SpecDemo == InitDemo /\ [][NextDemo]_vars

\* SpecDemo where the catch handlers of the two entry points run once the
\* rejection of signIn's promise reaches them (promise reactions are
\* microtasks that the event loop always runs)
FairDemo == SpecDemo /\ WF_vars(SignInRejected) /\ WF_vars(MainSignInRejected)

-----------------------------------------------------------------------------
(* SpecSignIn: the sign-in of the monitor with its callback requests, up   *)
(* to the return of `await demo.signIn()`.  The request that _handleRequest *)
(* dropped last is kept in rejectedRequest.                                *)

HandleRequestRejected_resets ==
    /\ exitCode = Null
    /\ signInCalls > 0
    /\ \E req \in Requests :
        /\ ~requestPasses(req)
        /\ rejectedRequest' = Some(req)
    /\ _state' = Null
    /\ _pkceVerifier' = resetVerifier
    /\ UNCHANGED <<_callbackServer, _tokenPair, _tokenTimestampMs, signInPromise,
                   signInUrl, signInCalls, exchangeLog, inflight, tokenPairAssigned,
                   resolveCalls, refreshReq, apiReq, envVars, monitorVars, cmpVars,
                   mainVars, ops, refreshLog>>

\* _handleRequest, a request that one of the early returns drops: nothing of
\* the demo object is written
HandleRequestRejected ==
    /\ exitCode = Null
    /\ signInCalls > 0
    /\ \E req \in Requests :
        /\ ~requestPasses(req)
        /\ rejectedRequest' = Some(req)
    /\ UNCHANGED <<demoVars, envVars, monitorVars, cmpVars, mainVars, ops, refreshLog>>

NextSignIn ==
    \/ Start
    \/ HandleRequestRejected
    \/ HandleRequestExchange(MaxExchanges)
    \/ HandleRequestComplete
    \/ HandleRequestThrows
    \/ Sigint
    \/ SignInCompleted
    \/ SignInRejected

SpecSignIn == Init /\ [][NextSignIn]_vars

-----------------------------------------------------------------------------
(* SpecClient: a caller that signs in and then starts MaxOps API           *)
(* operations of one DigitalFactoryDemo instance without awaiting one      *)
(* before it starts the next.  Every operation is                          *)
(* `await this._checkTokenExpiration()` followed by one request.           *)

OpIds == 1..MaxOps

\* stage: "idle" (not called), "refreshing" (inside _checkTokenExpiration,
\* waiting for the token endpoint), "requesting" (API request sent with
\* 'authorization'), "done", "failed"; 'presented' is the refresh token of
\* the refresh request the operation sent
IdleOp == [stage |-> "idle", presented |-> Null, authorization |-> Null]

\* the caller before its first statement
ClientIdle ==
    /\ pc = "client"
    /\ aborted = FALSE
    /\ previous = Null
    /\ clusters = Null
    /\ dateTime = Null
    /\ snapshotFile = Null
    /\ csvRow = Null
    /\ stream = "none"
    /\ exitCode = Null
    /\ sinceFetch = "nofetch"
    /\ iter = NoIter
    /\ rejectedRequest = Null
    /\ ops = [i \in OpIds |-> IdleOp]
    /\ refreshLog = <<>>

clientFrame == <<mainLocals, exitCode, cmpVars, mainVars, rejectedRequest>>

\* the caller calls signIn
ClientStart ==
    /\ pc = "client"
    /\ signIn
    /\ pc' = "clientSignIn"
    /\ UNCHANGED <<tokenFields, exchangeLog, inflight, tokenPairAssigned, resolveCalls,
                   refreshReq, apiReq, envVars, clientFrame, ops, refreshLog>>

\* `await demo.signIn()` returns
ClientSignedIn ==
    /\ pc = "clientSignIn"
    /\ exitCode = Null
    /\ signInAwaited
    /\ pc' = "clientReady"
    /\ UNCHANGED <<demoVars, envVars, clientFrame, ops, refreshLog>>

\* the caller calls an operation, which runs up to its first request:
\* _checkTokenExpiration sends the refresh request when the token needs one,
\* otherwise the API request goes out
OperationStart(i) ==
    /\ pc = "clientReady"
    /\ exitCode = Null
    /\ ops[i].stage = "idle"
    /\ IF _tokenNeedsRefresh
       THEN /\ ops' = [ops EXCEPT ![i].stage = "refreshing",
                                   ![i].presented = RefreshRequest.refresh_token]
            /\ refreshLog' = Append(refreshLog, RefreshRequest)
       ELSE /\ ops' = [ops EXCEPT ![i].stage = "requesting",
                                   ![i].authorization = _tokenPair[1].access_token]
            /\ UNCHANGED refreshLog
    /\ UNCHANGED <<demoVars, envVars, pc, clientFrame>>

\* _checkTokenExpiration of an operation: the token endpoint answered, the
\* pair and its timestamp are replaced and the API request goes out
OperationRefreshAnswered(i) ==
    /\ exitCode = Null
    /\ ops[i].stage = "refreshing"
    /\ \E a \in {t \in TokenAnswers : t.issues = 1 => ops[i].presented # Null} :
        /\ _tokenPair' = Some(a.pair)
        /\ issued' = issued + a.issues
        /\ ops' = [ops EXCEPT ![i].stage = "requesting",
                              ![i].authorization = a.pair.access_token]
    /\ _tokenTimestampMs' = now
    /\ UNCHANGED <<callbackVars, refreshReq, apiReq, now, pc, clientFrame, refreshLog>>

\* the refresh request of an operation throws: the operation rejects
OperationRefreshThrows(i) ==
    /\ exitCode = Null
    /\ ops[i].stage = "refreshing"
    /\ ops' = [ops EXCEPT ![i].stage = "failed"]
    /\ UNCHANGED <<demoVars, envVars, pc, clientFrame, refreshLog>>

\* the API request of an operation was answered (ok) or threw
OperationSettles(i) ==
    /\ exitCode = Null
    /\ ops[i].stage = "requesting"
    /\ \E ok \in BOOLEAN :
        ops' = [ops EXCEPT ![i].stage = IF ok THEN "done" ELSE "failed"]
    /\ UNCHANGED <<demoVars, envVars, pc, clientFrame, refreshLog>>

InitClient ==
    /\ DemoInit
    /\ ClientIdle
    /\ MainUnused
    /\ statusDir = Null
    /\ now = 0
    /\ issued = 0
    /\ cmpArgs = Null
    /\ cmpResult = Null

NextClient ==
    \/ ClientStart
    \/ ClientSignedIn
    \/ HandleRequestDropped
    \/ HandleRequestExchange(MaxExchanges)
    \/ HandleRequestComplete
    \/ HandleRequestThrows
    \/ Tick
    \/ \E i \in OpIds :
        \/ OperationStart(i)
        \/ OperationRefreshAnswered(i)
        \/ OperationRefreshThrows(i)
        \/ OperationSettles(i)

SpecClient == InitClient /\ [][NextClient]_vars

-----------------------------------------------------------------------------
(* Properties of the interactive demo and of the token handling *)

\* the place of an operation in the order of main's text
StepIndex(op) == CHOOSE i \in DOMAIN MainSteps : MainSteps[i] = op

\* C11: after sign-in main calls the operations one after the other in the
\* order create-project, add-comment, upload-file, submit-print-job,
\* list-running-jobs, search-projects: each at most once, each only after the
\* call before it completed, none of a later step before one of an earlier.
C11_thm ==
    /\ \A i, j \in DOMAIN callLog :
           i < j => StepIndex(callLog[i].op) < StepIndex(callLog[j].op)
    /\ \A i \in DOMAIN callLog : i < Len(callLog) => callLog[i].status = "done"
    /\ callLog # <<>> =>
           /\ signInPromise = "resolved"
           /\ callLog[1].op = "createProject"

\* C11 witness: a run of main that called all six operations and returned
C11_witness ==
    /\ pc = "mainExited"
    /\ exitCode = Some(0)
    /\ [i \in DOMAIN callLog |-> callLog[i].op] = MainSteps

\* C12: in both entry points an API or refresh request exists only after
\* signIn's promise resolved, the promise resolves only after _handleRequest
\* assigned _tokenPair, and _tokenPair is non-null when the Authorization
\* header of a request is built.
C12_thm ==
    /\ (apiReq # Null \/ refreshReq # Null \/ callLog # <<>>)
           => signInPromise = "resolved"
    /\ signInPromise = "resolved" => (tokenPairAssigned >= 1 /\ _tokenPair # Null)
    /\ apiReq # Null => _tokenPair # Null

\* C12 witness: main sent the request of an operation with the issued token
C12_witness ==
    /\ pc = "getRunningPrintJobs"
    /\ apiReq # Null
    /\ apiReq[1].authorization = Some(1)
    /\ tokenPairAssigned = 1

\* the token pair of the demo object expires in less than 30 s, or expired
Expiring ==
    /\ _tokenPair # Null
    /\ _tokenPair[1].expires_in # Null
    /\ (_tokenTimestampMs + 1000 * _tokenPair[1].expires_in[1]) - now < 30 * 1000

\* a step in which an operation sends its API request right after the check
SendsDirectly ==
    /\ apiReq' # Null
    /\ refreshReq = Null
    /\ apiReq = Null \/ Len(callLog') > Len(callLog)

\* C15: an operation's check sends a refresh_token request exactly when the
\* token is less than 30 s from its expiry (now > timestamp + 1000 *
\* (expires_in - 30)); the answer replaces the token pair and its timestamp,
\* and the API request goes out with the pair that passed the check or with
\* the refreshed one.
C15_thm ==
    [][/\ (refreshReq = Null /\ refreshReq' # Null) =>
              /\ Expiring
              /\ refreshReq'[1].grant_type = "refresh_token"
              /\ refreshReq'[1].refresh_token = _tokenPair[1].refresh_token
       /\ SendsDirectly =>
              /\ ~Expiring
              /\ _tokenPair # Null
              /\ apiReq'[1].authorization = _tokenPair[1].access_token
              /\ UNCHANGED tokenFields
       /\ (refreshReq # Null /\ apiReq' # Null) =>
              /\ _tokenTimestampMs' = now
              /\ apiReq'[1].authorization = _tokenPair'[1].access_token
       /\ (tokenFields' # tokenFields /\ tokenPairAssigned' = tokenPairAssigned)
              => (refreshReq # Null /\ refreshReq' = Null)]_vars

\* C15 witness: main sent an API request with a refreshed token
C15_witness ==
    /\ pc \in StepNames
    /\ apiReq # Null
    /\ apiReq[1].authorization = Some(2)
    /\ Len(exchangeLog) = 1
    /\ now = _tokenTimestampMs

\* C17: in the demo a failed call is the last call, its error is printed and
\* the process exits with code 1; a rejected sign-in calls no operation; the
\* process exits with code 0 only after search-projects completed.
C17_thm ==
    /\ \A i \in DOMAIN callLog :
           callLog[i].status = "failed" =>
               /\ i = Len(callLog)
               /\ pc = "mainExited"
               /\ exitCode = Some(1)
               /\ printed
    /\ (signInPromise = "rejected" /\ pc \in {"mainSignIn", "mainExited"}) =>
           /\ callLog = <<>>
           /\ pc = "mainExited" => (exitCode = Some(1) /\ printed)
    /\ pc = "mainExited" =>
           /\ exitCode \in {Some(0), Some(1)}
           /\ exitCode = Some(1) <=> printed
    /\ (pc \in {"main", "mainSignIn", "uploadPut", "mainExited"} \cup StepNames
            /\ exitCode = Some(0)) =>
           /\ pc = "mainExited"
           /\ callLog # <<>>
           /\ callLog[Len(callLog)].op = "searchProjects"
           /\ \A i \in DOMAIN callLog : callLog[i].status = "done"

\* C17 witness: submitPrintJob failed after a completed upload and the
\* process exited with code 1
C17_witness ==
    /\ pc = "mainExited"
    /\ exitCode = Some(1)
    /\ printed
    /\ Len(callLog) = 4
    /\ callLog[4] = [op |-> "submitPrintJob", status |-> "failed"]

\* a cluster ID and a UFP path are configured: both variables are set and
\* differ from their placeholders
BothConfigured ==
    /\ config.clusterId \notin {Null, Some(CLUSTER_PLACEHOLDER)}
    /\ config.ufpPath \notin {Null, Some(UFP_PLACEHOLDER)}

\* C19: uploadFileToProject and submitPrintJob are invoked only when a
\* cluster ID and a UFP path are configured, and submitPrintJob only after a
\* completed uploadFileToProject.
C19_claim ==
    \A i \in DOMAIN callLog :
        /\ callLog[i].op \in {"uploadFileToProject", "submitPrintJob"} => BothConfigured
        /\ callLog[i].op = "submitPrintJob" =>
               /\ i > 1
               /\ callLog[i - 1] = [op |-> "uploadFileToProject", status |-> "done"]

-----------------------------------------------------------------------------
(* Properties of the monitor loop *)

\* C2: between any two consecutive calls of getClusters there is a call of
\* awaitAsync(waitMS), whatever getClusters returned: whenever the loop calls
\* getClusters, it has slept since the previous call (or this is the first).
C2_claim ==
    [][(pc = "loop" /\ pc' \in {"refreshing", "fetching"})
           => sinceFetch \in {"nofetch", "slept"}]_vars

\* C3: for one call of signIn at most one token-exchange request is sent,
\* _tokenPair is assigned at most once by the callback listener and the
\* sign-in resolver is called at most once.
C3_claim ==
    /\ Len(exchangeLog) <= 1
    /\ tokenPairAssigned <= 1
    /\ resolveCalls <= 1

\* C4: a token-exchange request is sent only for a callback request with a
\* non-empty code whose state parameter is present and equal to the state
\* that signIn generated and put in the authorization URL.
C4_thm ==
    \A i \in DOMAIN exchangeLog :
        /\ exchangeLog[i].code # ""
        /\ exchangeLog[i].callbackState \notin {Null, Some("")}
        /\ signInUrl # Null
        /\ exchangeLog[i].callbackState = Some(signInUrl[1].state)

\* C4 witness: a callback carrying the generated state "s2" reached the token
\* exchange
C4_witness ==
    /\ Len(exchangeLog) >= 1
    /\ exchangeLog[1].callbackState = Some("s2")
    /\ exchangeLog[1].code = "c1"

\* C5: if SIGINT is received after sign-in completed, the loop eventually
\* exits, the CSV stream is ended and the process exits with code 0; and the
\* loop is not left (its finally does not end the stream) without a SIGINT.
C5_claim ==
    /\ (aborted /\ signInPromise = "resolved")
           ~> (pc = "exited" /\ stream = "ended" /\ exitCode = Some(0))
    /\ [](stream = "ended" => aborted)

\* C6: a CSV row is written for a fetch only after the JSON snapshot of that
\* same fetch was written successfully, never for a fetch whose snapshot
\* write failed, and never before the write returned.
C6_thm ==
    /\ csvRow # Null =>
           /\ iter.snapshot
           /\ iter.threw = "no"
           /\ snapshotFile # Null
           /\ Some(snapshotFile[1].content) = clusters
    /\ pc \in {"refreshing", "fetching", "writing"} => csvRow = Null
    /\ iter.threw = "write" => csvRow = Null

\* C6 witness: an iteration wrote its snapshot and then its CSV row
C6_witness ==
    /\ csvRow # Null
    /\ iter.snapshot
    /\ pc = "sleeping"

\* C7: every CSV row compares the list just fetched with the most recent
\* earlier list fetched and written in this run or, when there is none, with
\* the snapshot loaded at startup; after an iteration that fetched and wrote
\* a snapshot, 'previous' is that snapshot.
C7_thm ==
    /\ csvRow # Null =>
           /\ iter.earlier # Null
           /\ csvRow = Some(csvLine(compareResults(iter.earlier[1], clusters[1],
                                                   dateTime[1])))
    /\ iter.snapshot => previous = Some(snapshotFile[1].content)

\* C7 witness: a row that compares a fetched list with a different list that
\* an earlier iteration of this run fetched and wrote
C7_witness ==
    /\ csvRow # Null
    /\ iter.earlier # getPreviousClusterStatus(statusDir)
    /\ iter.earlier = Some(<<Online("b")>>)
    /\ clusters = Some(<<Online("a")>>)
    /\ previous = clusters

\* the positions of monitorClusters after `await demo.signIn()` returned
AfterSignIn == {"mkdir", "readdir", "readFile", "loop", "refreshing", "fetching", "writing", "sleeping"}

\* C8: signIn is invoked exactly once, no getClusters request is sent before
\* signIn's promise resolved, and after that no authorization-code exchange
\* is started: the loop renews the token through the refresh_token grant.
C8_thm ==
    /\ signInCalls <= 1
    /\ pc # "init" => signInCalls = 1
    /\ (pc \in AfterSignIn \/ apiReq # Null \/ refreshReq # Null)
           => signInPromise = "resolved"
    /\ refreshReq # Null => refreshReq[1].grant_type = "refresh_token"
    /\ \A i \in DOMAIN exchangeLog :
           /\ exchangeLog[i].grant_type = "authorization_code"
           /\ ~exchangeLog[i].afterSignIn

\* C8 witness: the server issued two token pairs for a single token
\* exchange, so the second came from a refresh, and the GET request is out
C8_witness ==
    /\ issued = 2
    /\ Len(exchangeLog) = 1
    /\ apiReq # Null
    /\ apiReq[1].authorization = Some(2)
    /\ signInCalls = 1

\* C9: when fetching or writing throws, the error is logged, no CSV row is
\* written for the iteration, 'previous' keeps its value, the monitor sleeps
\* and is then ready to fetch again; the loop ends only on SIGINT.
C9_thm ==
    iter.threw # "no" =>
        /\ iter.logged
        /\ csvRow = Null
        /\ previous = iter.previousBefore
        /\ sinceFetch = "slept"
        /\ \/ pc = "sleeping"
           \/ pc = "loop"
           \/ pc = "exited" /\ aborted /\ exitCode = Some(0)
        /\ (pc = "loop" /\ ~aborted /\ exitCode = Null) => ENABLED Retrieve

\* C9 witness: a failed snapshot write after which the loop is back at its
\* condition with the earlier 'previous'
C9_witness ==
    /\ iter.threw = "write"
    /\ pc = "loop"
    /\ ~aborted
    /\ previous = Some(<<Online("a")>>)
    /\ clusters = Some(<<Offline("a")>>)

\* the values of the query of the authorization URL
UrlValues(q) == {q.client_id, q.redirect_uri, q.scope, q.state, q.response_type,
                 q.code_challenge, q.code_challenge_method}

\* C10: the code_verifier of every token-exchange request is the verifier
\* whose challenge is in the authorization URL, the URL does not hold the
\* verifier, and once sign-in completed the stored verifier and state are
\* cleared and no further exchange uses them.
C10_thm ==
    /\ \A i \in DOMAIN exchangeLog :
           /\ signInUrl # Null
           /\ exchangeLog[i].code_verifier \in VerifierValues
           /\ _generatePKCEChallenge(exchangeLog[i].code_verifier)
                  = signInUrl[1].code_challenge
           /\ ~exchangeLog[i].afterSignIn
    /\ signInUrl # Null => UrlValues(signInUrl[1]) \cap VerifierValues = {}
    /\ _pkceVerifier # Null =>
           /\ signInUrl # Null
           /\ _generatePKCEChallenge(_pkceVerifier[1]) = signInUrl[1].code_challenge
    /\ signInPromise = "resolved" => _pkceVerifier = Null /\ _state = Null

\* C10 witness: sign-in completed after an exchange that carried the
\* generated verifier "v2"
C10_witness ==
    /\ signInPromise = "resolved"
    /\ Len(exchangeLog) >= 1
    /\ exchangeLog[1].code_verifier = "v2"
    /\ signInUrl[1].code_challenge = "sha512(v2)"

\* C13: signIn's promise resolves only after the token endpoint answered the
\* code exchange with a response that has an access_token; with an error
\* response sign-in does not complete and no API request carries it.
C13_claim ==
    /\ signInPromise = "resolved" =>
           /\ _tokenPair # Null
           /\ _tokenPair[1].access_token # Null
    /\ apiReq # Null => apiReq[1].authorization # Null

\* C14: awaitAsync resolves as soon as the signal is aborted, also when the
\* abort happened before awaitAsync was called: no awaitAsync promise is
\* pending while the signal is aborted.
C14_claim == ~(pc = "sleeping" /\ aborted)

\* C16: getPreviousClusterStatus leaves the status directory existing; for a
\* missing directory it creates an empty one and returns null; for a directory
\* without '.json' file it returns a falsy value; otherwise it returns the
\* content of the '.json' file whose name is greatest in the sort order.
C16_thm ==
    [][(pc \in {"mkdir", "readdir", "readFile"} /\ pc' = "loop") =>
           /\ statusDir' # Null
           /\ statusDir = Null => (statusDir' = Some({}) /\ previous' = Null)
           /\ statusDir # Null =>
                  /\ statusDir' = statusDir
                  /\ JsonFiles(statusDir) = {} => previous' = Null
                  /\ JsonFiles(statusDir) # {} =>
                         \E f \in JsonFiles(statusDir) :
                             /\ \A g \in JsonFiles(statusDir) : Rank(g.name) <= Rank(f.name)
                             /\ previous' = Some(f.content)]_vars

\* C16 witness: the monitor loaded the newer of two snapshots from a
\* directory that also holds a file that is no snapshot
C16_witness ==
    /\ pc = "loop"
    /\ sinceFetch = "nofetch"
    /\ Cardinality(statusDir[1]) = 3
    /\ previous = Some(<<Offline("a")>>)

\* C18: an iteration has a CSV row if and only if the fetch returned a list,
\* its snapshot was written and a previous snapshot existed; the first
\* written snapshot of a run that found none at startup has no row, every
\* later written snapshot has its row.
C18_thm ==
    /\ csvRow # Null <=> (clusters # Null /\ iter.snapshot /\ iter.previousBefore # Null)
    /\ (iter.snapshot /\ iter.earlier = Null) => (csvRow = Null /\ snapshotFile # Null)
    /\ (iter.snapshot /\ iter.earlier # Null) => csvRow # Null

\* C18 witness: the first snapshot of a run that started with a directory
\* without snapshot was written, without a CSV row
C18_witness ==
    /\ iter.snapshot
    /\ iter.earlier = Null
    /\ csvRow = Null
    /\ snapshotFile # Null
    /\ statusDir = Some({[name |-> FileOrder[3], content |-> <<>>]})

\* C22: once SIGINT was received the monitor starts no getClusters call: a
\* call starts only with the abort flag clear, and with the flag set a GET
\* request goes out only to finish the call that was waiting for its token
\* refresh when the signal came.
C22_thm ==
    [][/\ (pc = "loop" /\ pc' \in {"refreshing", "fetching", "sleeping"}) => ~aborted
       /\ (aborted /\ apiReq = Null /\ apiReq' # Null) => pc = "refreshing"
       /\ (aborted /\ refreshReq' # Null) => refreshReq # Null]_vars

\* C22 witness: the signal came while a fetch was in flight; the fetch was
\* completed with its snapshot and CSV row, and awaitAsync was called with
\* the flag already set
C22_witness ==
    /\ aborted
    /\ pc = "sleeping"
    /\ iter.snapshot
    /\ csvRow # Null

-----------------------------------------------------------------------------
(* Stand-alone compareResults: the arguments are drawn by the initial      *)
(* state, Compare applies the function.                                    *)

InitCompare ==
    /\ DemoInit
    /\ MonitorIdle
    /\ statusDir = Null
    /\ now = 0
    /\ issued = 0
    /\ cmpArgs \in [previous : CompareLists, current : CompareLists, dateTime : DateTimes]
    /\ cmpResult = Null
    /\ MainUnused
    /\ ClientUnused

Compare ==
    /\ cmpResult = Null
    /\ cmpResult' = Some(compareResults(cmpArgs.previous, cmpArgs.current, cmpArgs.dateTime))
    /\ UNCHANGED <<demoVars, envVars, monitorVars, cmpArgs, mainVars, clientVars>>

NextCompare == Compare

SpecCompare == InitCompare /\ [][NextCompare]_vars

\* the set of elements of a sequence
Range(s) == {s[i] : i \in DOMAIN s}
\* the cluster_ids with an online entry in a list
OnlineIn(l) == {l[i].cluster_id : i \in {j \in DOMAIN l : l[j].is_online}}
\* the is_online values a list holds for an id
StatusOf(l, id) == {l[i].is_online : i \in {j \in DOMAIN l : l[j].cluster_id = id}}

\* C1: compareResults(previous, current, t): 'appeared' is exactly the set of
\* cluster_ids online in current and not online in previous, 'gone' exactly the
\* set online in previous and not online in current; a cluster present in both
\* lists with unchanged is_online is in neither.
C1_thm ==
    cmpResult # Null =>
        LET r == cmpResult[1]
            p == cmpArgs.previous
            c == cmpArgs.current
        IN  /\ Range(r.appeared) = OnlineIn(c) \ OnlineIn(p)
            /\ Range(r.gone) = OnlineIn(p) \ OnlineIn(c)
            /\ \A id \in ClusterIds :
                  (StatusOf(p, id) # {} /\ StatusOf(p, id) = StatusOf(c, id))
                      => id \notin Range(r.appeared) \cup Range(r.gone)

\* C1 witness: a comparison with a cluster that came online, one that went
\* offline, and a list with a repeated cluster_id
C1_witness ==
    /\ cmpResult # Null
    /\ cmpResult[1].appeared = <<"a">>
    /\ cmpResult[1].gone = <<"b">>
    /\ Len(cmpArgs.current) = 2
    /\ cmpArgs.current[1].cluster_id = cmpArgs.current[2].cluster_id

\* the number of entries of a list with the given is_online
CountStatus(l, online) == Cardinality({i \in DOMAIN l : l[i].is_online = online})

\* C20: onlineCount is the number of entries of current with is_online true,
\* offlineCount the number of entries with is_online false, and their sum is
\* the length of current, also when a cluster_id occurs more than once.
C20_claim ==
    cmpResult # Null =>
        LET r == cmpResult[1]
            c == cmpArgs.current
        IN  /\ r.onlineCount = CountStatus(c, TRUE)
            /\ r.offlineCount = CountStatus(c, FALSE)
            /\ r.onlineCount + r.offlineCount = Len(c)

\* C21: 'appeared' and 'gone' are disjoint and hold no cluster_id twice;
\* every id of 'appeared' is an online id of current and so counted in
\* onlineCount; comparing a list with itself gives empty 'appeared' and 'gone'.
C21_thm ==
    cmpResult # Null =>
        LET r == cmpResult[1]
        IN  /\ Range(r.appeared) \cap Range(r.gone) = {}
            /\ Cardinality(Range(r.appeared)) = Len(r.appeared)
            /\ Cardinality(Range(r.gone)) = Len(r.gone)
            /\ Range(r.appeared) \subseteq OnlineIn(cmpArgs.current)
            /\ Len(r.appeared) <= r.onlineCount
            /\ cmpArgs.previous = cmpArgs.current =>
                   (r.appeared = <<>> /\ r.gone = <<>>)

\* C21 witness: a list with a repeated online cluster_id compared with the
\* empty list, and such a list compared with itself
C21_witness ==
    /\ cmpResult # Null
    /\ cmpArgs.current = <<Online("a"), Online("a")>>
    /\ \/ cmpArgs.previous = <<>> /\ cmpResult[1].appeared = <<"a">>
       \/ cmpArgs.previous = cmpArgs.current /\ cmpResult[1].onlineCount = 1


-----------------------------------------------------------------------------
(* Properties of rejected callback requests and failing token requests *)

\* sign-in is waiting for its callback
AwaitingCallback ==
    /\ signInPromise = "pending"
    /\ exitCode = Null
    /\ tokenPairAssigned = 0

\* C23: a callback request that _handleRequest rejects (no url, no sign-in
\* pending, no code, missing or mismatching state) changes nothing of the
\* demo object or the process; while sign-in is still waiting, the promise
\* stays pending with the state, the verifier and the server in place, and a
\* later valid request is accepted and sends the token exchange.
C23_thm ==
    /\ [][rejectedRequest' # rejectedRequest
            => UNCHANGED <<demoVars, envVars, monitorVars>>]_vars
    /\ []((rejectedRequest # Null /\ AwaitingCallback)
            => /\ truthy(_state) /\ truthy(_pkceVerifier)
               /\ _callbackServer = "listening"
               /\ _tokenPair = Null
               /\ (Len(exchangeLog) < MaxExchanges
                     => ENABLED HandleRequestExchange(MaxExchanges)))

\* a request with a wrong state was rejected, and afterwards a valid request
\* completed the sign-in
C23_witness ==
    /\ rejectedRequest # Null
    /\ rejectedRequest[1].url
    /\ truthy(rejectedRequest[1].code)
    /\ truthy(rejectedRequest[1].state)
    /\ Len(exchangeLog) = 1
    /\ exchangeLog[1].callbackState # rejectedRequest[1].state
    /\ signInPromise = "resolved"
    /\ _tokenPair # Null
    /\ _tokenPair[1].access_token # Null

\* C24: when the token-exchange request of a callback throws, the step leaves
\* the sign-in state, the verifier, the server, the pending promise and the
\* empty token pair as they were and the process keeps running, so that a
\* later valid callback can complete the sign-in.
C24_claim ==
    [][(inflight' # inflight /\ Len(exchangeLog') = Len(exchangeLog)
          /\ tokenPairAssigned' = tokenPairAssigned)
         => /\ UNCHANGED <<signInFields, _tokenPair, _tokenTimestampMs>>
            /\ exitCode' = Null]_vars


\* C25: a token refresh that fails, by an error answer of the token endpoint
\* or by a throw, leaves the stored token pair and its timestamp at their
\* previous values (so that the next operation checks again and retries):
\* the step that ends a refresh request either stores a pair that has an
\* access token or changes neither field.
C25_claim ==
    [][(refreshReq # Null /\ refreshReq' = Null)
         => \/ _tokenPair'[1].access_token # Null
            \/ UNCHANGED tokenFields]_vars


-----------------------------------------------------------------------------
(* Properties of concurrent API operations *)

\* the refresh tokens that refresh requests presented so far, in order
PresentedTokens == [k \in 1..Len(refreshLog) |-> refreshLog[k].refresh_token]

\* C26: token refresh is single-flight under concurrent API operations: at
\* most one operation waits for a refresh request at a time, and no refresh
\* token is presented by two refresh requests.
C26_claim ==
    /\ Cardinality({i \in OpIds : ops[i].stage = "refreshing"}) <= 1
    /\ \A j, k \in 1..Len(refreshLog) :
        PresentedTokens[j] = PresentedTokens[k] => j = k


-----------------------------------------------------------------------------
(* Properties of SIGINT during sign-in *)

\* C27: in both entry points, once SIGINT rejected the pending promise of
\* signIn no API request and no refresh request is ever sent, no operation
\* of main is invoked, the only exit code is 1, and the process does exit.
C27_thm ==
    /\ [](signInPromise = "rejected"
            => /\ apiReq = Null
               /\ refreshReq = Null
               /\ callLog = <<>>
               /\ exitCode \in {Null, Some(1)}
               /\ pc \in {"signIn", "mainSignIn", "exited", "mainExited"})
    /\ (signInPromise = "rejected") ~> (exitCode = Some(1))

\* main was interrupted while a token exchange was in flight and exited
C27_witness ==
    /\ signInPromise = "rejected"
    /\ pc = "mainExited"
    /\ exitCode = Some(1)
    /\ Len(exchangeLog) > 0
    /\ _tokenPair = Null

====
